---- MODULE Spec2Model ----
(***************************************************************************)
(* Model of the stable-radar ingest pipeline and of its radar.             *)
(*                                                                         *)
(*   server  src/app/api/hypersync/route.ts   GET, cleanupSeenTransactions *)
(*   client  src/app/hooks/useHypersync.ts    pollChainHeight, checkHeight,*)
(*                                            fetchChainData               *)
(*   radar   src/unnamed/part_004 (Radar)     the transactions effect,     *)
(*                                            drawRadar, the mouse handlers*)
(*                                                                         *)
(* Every await of the source is a point where other callbacks may run, so  *)
(* each handler is cut into one action per await-free stretch.  The        *)
(* upstream provider (HyperSync /height and /query) is the environment:    *)
(* its answers are drawn from small sets.                                  *)
(*                                                                         *)
(* Three capacities of the source are scaled down so that the states in    *)
(* which they are exceeded are reachable:                                  *)
(*     seen.size > 10000      ->  SEEN_CEILING = 2                         *)
(*     arr.slice(-5000)       ->  SEEN_KEEP    = 1   (half the ceiling)    *)
(*     slice(-100)            ->  MAX_TRANSACTIONS_PER_CHAIN = 2           *)
(* The code compares with and slices by these numbers and does nothing     *)
(* else with them.                                                         *)
(***************************************************************************)
EXTENDS Integers, Sequences, FiniteSets, TLC

\* ---------------------------------------------------------------- bounds
NumChains == 2
\* pollChainHeight calls per run: Spec and SpecCursor, SpecTracker
MaxPolls == 2
MaxTrackerPolls == 4
MaxTx == 3
\* raw logs the provider answers with per run
MaxLogs == 3
MaxPollHeight == 101

\* radar: transfers handed to one Radar, length of its transactions prop
MaxRadarTx == 2
MaxFeedLen == 2
\* radar: longest time between two animation frames, in seconds
MaxElapsed == 2
\* radar fed by the feed of a chain: transfers pushed into the feed per run
MaxStream == 6
\* of which transfers that had come before
MaxReplay == 1
\* and blips on the radar at a time
MaxBlips == 2
\* timestamps: transfers GET stamps per run
MaxStamps == 2

\* ------------------------------------------------------ program constants
SEEN_CEILING == 2
SEEN_KEEP == 1
MAX_TRANSACTIONS_PER_CHAIN == 2
START_OFFSET == 10000
RANGE_LIMIT == 10000
\* Radar.  Angles are hundredths of a radian, sizes thousandths of a pixel,
\* times seconds.  seenHashesRef is cut to its last 500 above 1000 hashes,
\* scaled here to the last 3 above 4: as in the source what is kept is less
\* than the ceiling and at least twice the feed's capacity less one
\* (500 >= 2 * 100 - 1, 3 >= 2 * 2 - 1).
TURN == 628
MIN_ROTATION_TIME == 2
minSize == 2000
maxSize == 15000
DEFAULT_SIZE == 3000
RADAR_SEEN_CEILING == 4
RADAR_SEEN_KEEP == 3

\* ------------------------------------------------------------ value sets
Chains == 1..NumChains
TxIds == 1..MaxTx
\* heights the /height endpoint reports
PollHeights == 100..MaxPollHeight
\* archive_height / next_block of a /query answer; 0 stands for a missing
\* (falsy) field
ArchiveHeights == {0, 10050}
NextBlocks == {0, 50, 60}
\* a raw log: its transaction_hash and whether decodeEventLog accepts it.
\* A log that does not decode is dropped whatever its hash is (seen or not),
\* so one hash, BadTx, stands for the logs that do not decode.
BadTx == MaxTx + 1
Logs == [transaction_hash : TxIds, decodable : {TRUE}]
          \cup {[transaction_hash |-> BadTx, decodable |-> FALSE]}
\* the data of one answer with at most n logs, the logs of its items in order
LogBatches(n) == UNION {[1..k -> Logs] : k \in 0..n}

NoError == <<>>
\* lastFailed before any log query has failed
NoFailure == [fromBlock |-> 0, issued |-> -1]

\* ------------------------------------------------------------- helpers
Max(a, b) == IF a >= b THEN a ELSE b
Min(a, b) == IF a <= b THEN a ELSE b
Range(s) == {s[i] : i \in 1..Len(s)}
\* Array.prototype.slice(-n)
SliceLast(s, n) == IF Len(s) <= n THEN s ELSE SubSeq(s, Len(s) - n + 1, Len(s))

\* ------------------------------------------------------------- state
VARIABLES
  lastSeenBlocks,     \* route.ts: cursor per chain, 0 = unset
  seenTransactions,   \* route.ts: Set per chain, kept in insertion order
  lastHeightRef,      \* useHypersync: last height per chain, 0 = unset
  chainData,          \* useHypersync: feed per chain
  error,              \* useHypersync: the hook's error state
  isLoading,          \* useHypersync
  pendingHeight,      \* per chain: pollChainHeight calls awaiting checkHeight
  fetches,            \* per chain: the fetchChainData calls, in start order
  polls,              \* pollChainHeight calls made so far
  delivered,          \* raw logs the provider has answered with so far
  \* history
  heightLog,          \* per chain: heights returned by successful checks
  heightUpdates,      \* per chain: assignments to lastHeightRef
  appeared,           \* per chain: hashes of decodable logs in accepted answers
  pushed,             \* per chain: every transfer handed to setChainData
  undecoded,          \* per chain: logs of accepted answers that did not decode
  lastFailed,         \* per chain: the latest log query that failed
  heightFailures,     \* per chain: failed height checks in a row
  \* one Radar component
  blockTime,              \* prop: the chain's block time
  radarTransactions,      \* radarTransactionsRef: the blips, in push order
  sweepAngleRef,          \* kept modulo TURN, as drawRadar reads it
  previousSweepAngleRef,  \* kept modulo TURN, as drawRadar reads it
  seenHashesRef,          \* Set of displayed hashes, in insertion order
  lastFrameTimeRef,       \* 0 = unset, 1 = the time of the previous frame
  hoveredBlip,            \* state: hash of the hovered blip, 0 = null
  effectHoveredBlip,      \* hoveredBlip as closed over by the running effect
  renderPending,          \* hoveredBlip was set, the effect has not re-run
  blipsCreated,           \* history: blips pushed so far (numbers the blips)
  sinceDiscovered,        \* history: per blip, seconds since its discovery
  hoveredSince,           \* history: blips hovered since their discovery
  displayed,              \* history: hashes displayed and in the feed ever since
  clock,                  \* history: the time since the first frame
  stamps,                 \* history: the timestamps GET has computed
  threshold               \* page.tsx: the threshold state, in dollars

radarVars == <<blockTime, radarTransactions, sweepAngleRef, previousSweepAngleRef,
               seenHashesRef, lastFrameTimeRef, hoveredBlip, effectHoveredBlip,
               renderPending, blipsCreated>>
radarHist == <<sinceDiscovered, hoveredSince, displayed, clock, stamps, threshold>>

ingestVars == <<lastSeenBlocks, seenTransactions, lastHeightRef, chainData, error,
                isLoading, pendingHeight, fetches, polls, delivered,
                heightLog, heightUpdates, appeared, pushed, undecoded,
                lastFailed, heightFailures>>

vars == <<ingestVars, radarVars, radarHist>>

serverVars == <<lastSeenBlocks, seenTransactions>>
clientVars == <<lastHeightRef, chainData, error, isLoading>>

\* one fetchChainData call and the GET it issues
\*   pc: "request"     client sent /api/hypersync, GET not started
\*       "heightQuery" GET awaits the archive-height query (first run)
\*       "query"       GET awaits the log query
\*       "respOk"      GET returned 200, client has not handled it
\*       "respErr"     GET returned 500, client has not handled it
\*       "done"
\*   fromBlock          the local of GET
\*   nextBlock          debugInfo.nextBlock
\*   transactions, totalTransactions   the body of a 200 answer
\*   error              the error of a 500 answer
NewFetch == [pc |-> "request", fromBlock |-> 0, nextBlock |-> 0,
             transactions |-> <<>>, totalTransactions |-> 0, error |-> "",
             alone |-> TRUE]
DoneFetch(f) == [NewFetch EXCEPT !.pc = "done", !.alone = f.alone]

InGET(f) == f.pc \in {"heightQuery", "query"}
Pending(f) == f.pc # "done"

\* fetchChainData is called.  alone (history) records whether any other call
\* for the chain was pending at some time during the life of a call.
StartFetch(fs) ==
  Append([j \in 1..Len(fs) |->
            IF Pending(fs[j]) THEN [fs[j] EXCEPT !.alone = FALSE] ELSE fs[j]],
         [NewFetch EXCEPT !.alone = \A j \in 1..Len(fs) : ~Pending(fs[j])])

\* the refs and state of a Radar mounted with the given block time
NoHover == 0
RadarMount(bt) ==
  /\ blockTime = bt
  /\ radarTransactions = <<>>
  /\ sweepAngleRef = 0
  /\ previousSweepAngleRef = 0
  /\ seenHashesRef = <<>>
  /\ lastFrameTimeRef = 0
  /\ hoveredBlip = NoHover
  /\ effectHoveredBlip = NoHover
  /\ renderPending = FALSE
  /\ blipsCreated = 0
  /\ sinceDiscovered = [id \in {} |-> 0]
  /\ hoveredSince = {}
  /\ displayed = {}
  /\ clock = [ticked |-> FALSE, total |-> 0]
  /\ stamps = <<>>
  /\ threshold = 0

IngestInit ==
  /\ lastSeenBlocks = [c \in Chains |-> 0]
  /\ seenTransactions = [c \in Chains |-> <<>>]
  /\ lastHeightRef = [c \in Chains |-> 0]
  /\ chainData = [c \in Chains |-> [transactions |-> <<>>, totalCount |-> 0]]
  /\ error = NoError
  /\ isLoading = TRUE
  /\ pendingHeight = [c \in Chains |-> 0]
  /\ fetches = [c \in Chains |-> <<>>]
  /\ polls = 0
  /\ delivered = 0
  /\ heightLog = [c \in Chains |-> <<>>]
  /\ heightUpdates = [c \in Chains |-> 0]
  /\ appeared = [c \in Chains |-> {}]
  /\ pushed = [c \in Chains |-> <<>>]
  /\ undecoded = [c \in Chains |-> 0]
  /\ lastFailed = [c \in Chains |-> NoFailure]
  /\ heightFailures = [c \in Chains |-> [streak |-> 0, before |-> 0]]

\* the ingest side, next to a Radar that is left alone
Init == IngestInit /\ RadarMount(MIN_ROTATION_TIME)

\* ------------------------------------------------------- height tracker
\* Every action below leaves the history variables to the specification
\* that uses it (see the Rec... definitions).

\* a call of pollChainHeight (the initial one of the effect, or a setInterval
\* callback), up to `await checkHeight`
PollStart(c) ==
  /\ polls' = polls + 1
  /\ pendingHeight' = [pendingHeight EXCEPT ![c] = @ + 1]
  /\ UNCHANGED <<serverVars, clientVars, fetches, delivered>>

\* mutants of the gate: an unchanged height counts as new; only the first
\* poll counts
NewBlockDetectedGeq(lastHeight, currentHeight) ==
  lastHeight = 0 \/ currentHeight >= lastHeight
NewBlockDetectedFirstOnly(lastHeight, currentHeight) ==
  lastHeight = 0

\* the gate of pollChainHeight
NewBlockDetected(lastHeight, currentHeight) ==
  lastHeight = 0 \/ currentHeight > lastHeight

\* mutant: a failed check returns 0 for null
CheckHeightFailedAsZero(c) ==
  /\ pendingHeight[c] > 0
  /\ pendingHeight' = [pendingHeight EXCEPT ![c] = @ - 1]
  /\ IF NewBlockDetected(lastHeightRef[c], 0)
       THEN /\ lastHeightRef' = [lastHeightRef EXCEPT ![c] = 0]
            /\ fetches' = [fetches EXCEPT ![c] = StartFetch(@)]
       ELSE UNCHANGED <<lastHeightRef, fetches>>
  /\ UNCHANGED <<serverVars, chainData, error, isLoading, polls, delivered>>

\* checkHeight returned null: pollChainHeight returns
CheckHeightFailed(c) ==
  /\ pendingHeight[c] > 0
  /\ pendingHeight' = [pendingHeight EXCEPT ![c] = @ - 1]
  /\ UNCHANGED <<serverVars, clientVars, fetches, polls, delivered>>

\* checkHeight returned a height: the rest of pollChainHeight, up to the
\* first await of fetchChainData
CheckHeightReturned(c, currentHeight) ==
  /\ pendingHeight[c] > 0
  /\ pendingHeight' = [pendingHeight EXCEPT ![c] = @ - 1]
  /\ IF NewBlockDetected(lastHeightRef[c], currentHeight)
       THEN /\ lastHeightRef' = [lastHeightRef EXCEPT ![c] = currentHeight]
            /\ fetches' = [fetches EXCEPT ![c] = StartFetch(@)]
       ELSE UNCHANGED <<lastHeightRef, fetches>>
  /\ UNCHANGED <<serverVars, chainData, error, isLoading, polls, delivered>>

\* ------------------------------------------------------------ GET route
\* GET up to its first await: reads the cursor
GETStart(c, i) ==
  LET f == fetches[c][i]
      fromBlock == lastSeenBlocks[c]
  IN
  /\ f.pc = "request"
  /\ fetches' = [fetches EXCEPT ![c][i] =
        [f EXCEPT !.pc = IF fromBlock = 0 THEN "heightQuery" ELSE "query",
                  !.fromBlock = fromBlock]]
  /\ UNCHANGED <<serverVars, clientVars, pendingHeight, polls, delivered>>

\* first run: the start block derived from the archive height
FirstFromBlock(ok, archive_height) ==
  IF ok /\ archive_height # 0 THEN Max(0, archive_height - START_OFFSET) ELSE 0

\* the archive-height query of the first run answered
GETHeightResponse(c, i, ok, archive_height) ==
  LET f == fetches[c][i] IN
  /\ f.pc = "heightQuery"
  /\ fetches' = [fetches EXCEPT ![c][i] =
        [f EXCEPT !.pc = "query", !.fromBlock = FirstFromBlock(ok, archive_height)]]
  /\ UNCHANGED <<serverVars, clientVars, pendingHeight, polls, delivered>>

\* the error messages GET answers with (status 500)
QueryFailedMsg == "Hypersync query failed"
FetchRejectedMsg == "fetch failed"
TypeErrorMsg == "TypeError"

\* one of the two fetch() calls of GET rejected: the catch block answers 500
GETFetchRejected(c, i) ==
  LET f == fetches[c][i] IN
  /\ InGET(f)
  /\ fetches' = [fetches EXCEPT ![c][i] =
        [f EXCEPT !.pc = "respErr", !.error = FetchRejectedMsg]]
  /\ UNCHANGED <<serverVars, clientVars, pendingHeight, polls, delivered>>

\* mutant: the cursor is moved to the end of the queried range before the
\* answer is looked at
GETQueryFailedAdvances(c, i) ==
  LET f == fetches[c][i] IN
  /\ f.pc = "query"
  /\ fetches' = [fetches EXCEPT ![c][i] =
        [f EXCEPT !.pc = "respErr", !.error = QueryFailedMsg]]
  /\ lastSeenBlocks' = [lastSeenBlocks EXCEPT ![c] = f.fromBlock + RANGE_LIMIT]
  /\ UNCHANGED <<seenTransactions, clientVars, pendingHeight, polls, delivered>>

\* the log query answered non-ok: GET throws, the catch block answers 500
GETQueryFailed(c, i) ==
  LET f == fetches[c][i] IN
  /\ f.pc = "query"
  /\ fetches' = [fetches EXCEPT ![c][i] =
        [f EXCEPT !.pc = "respErr", !.error = QueryFailedMsg]]
  /\ UNCHANGED <<serverVars, clientVars, pendingHeight, polls, delivered>>

\* to_block of the query payload
ToBlock(fromBlock) == fromBlock + RANGE_LIMIT

\* mutant: the cursor is derived from the archive height again, as on the
\* first run
NextCursorRederived(cursor, next_block, archive_height) ==
  IF archive_height # 0 THEN Max(0, archive_height - START_OFFSET)
  ELSE IF next_block # 0 THEN next_block
  ELSE cursor

\* "Update last seen block"
NextCursor(cursor, next_block, archive_height) ==
  IF next_block # 0 THEN next_block
  ELSE IF archive_height # 0 /\ cursor = 0 THEN archive_height
  ELSE cursor

\* mutant: a log that does not decode ends the loop
RECURSIVE ProcessLogsAbortOnBad(_, _, _)
ProcessLogsAbortOnBad(logs, seen, out) ==
  IF logs = <<>> THEN [seen |-> seen, transactions |-> out]
  ELSE LET log == Head(logs) IN
       IF log.transaction_hash \in Range(seen)
         THEN ProcessLogsAbortOnBad(Tail(logs), seen, out)
       ELSE IF log.decodable
         THEN ProcessLogsAbortOnBad(Tail(logs), Append(seen, log.transaction_hash),
                                    Append(out, log.transaction_hash))
       ELSE [seen |-> seen, transactions |-> out]

\* mutant: a hash is looked up among the transfers of this answer only
RECURSIVE ProcessLogsLocalSeen(_, _, _)
ProcessLogsLocalSeen(logs, seen, out) ==
  IF logs = <<>> THEN [seen |-> seen, transactions |-> out]
  ELSE LET log == Head(logs) IN
       IF log.transaction_hash \in Range(out)
         THEN ProcessLogsLocalSeen(Tail(logs), seen, out)
       ELSE IF log.decodable
         THEN ProcessLogsLocalSeen(Tail(logs),
                IF log.transaction_hash \in Range(seen) THEN seen
                ELSE Append(seen, log.transaction_hash),
                Append(out, log.transaction_hash))
       ELSE ProcessLogsLocalSeen(Tail(logs), seen, out)

\* the loop over the logs: seen is the Set, out the transactions array
RECURSIVE ProcessLogs(_, _, _)
ProcessLogs(logs, seen, out) ==
  IF logs = <<>> THEN [seen |-> seen, transactions |-> out]
  ELSE LET log == Head(logs) IN
       IF log.transaction_hash \in Range(seen)
         THEN ProcessLogs(Tail(logs), seen, out)
       ELSE IF log.decodable
         THEN ProcessLogs(Tail(logs), Append(seen, log.transaction_hash),
                          Append(out, log.transaction_hash))
       ELSE ProcessLogs(Tail(logs), seen, out)

\* mutant: the cut keeps the hashes inserted first
cleanupSeenTransactionsOldest(seen) ==
  IF Len(seen) > SEEN_CEILING THEN SubSeq(seen, 1, SEEN_KEEP) ELSE seen

cleanupSeenTransactions(seen) ==
  IF Len(seen) > SEEN_CEILING THEN SliceLast(seen, SEEN_KEEP) ELSE seen

\* what GET reports as totalTransactions: `seen` is the Set read before the
\* cleanup, which replaces seenTransactions[chainId] by a new Set
TotalTransactions(seenAfterLoop) == Len(seenAfterLoop)

\* the log query answered ok: the rest of GET.
\*   throws : iterating data.data raises after the given logs (data is
\*            missing, or a log entry is null), so the catch block answers 500
\*   coin   : Math.random() < 0.1
GETQueryResponse(c, i, next_block, archive_height, logs, throws, coin) ==
  LET f == fetches[c][i]
      r == ProcessLogs(logs, seenTransactions[c], <<>>)
  IN
  /\ f.pc = "query"
  /\ lastSeenBlocks' = [lastSeenBlocks EXCEPT ![c] =
        NextCursor(@, next_block, archive_height)]
  /\ IF throws
       THEN /\ seenTransactions' = [seenTransactions EXCEPT ![c] = r.seen]
            /\ fetches' = [fetches EXCEPT ![c][i] =
                 [f EXCEPT !.pc = "respErr", !.nextBlock = next_block,
                           !.error = TypeErrorMsg]]
       ELSE /\ seenTransactions' = [seenTransactions EXCEPT ![c] =
                 IF coin THEN cleanupSeenTransactions(r.seen) ELSE r.seen]
            /\ fetches' = [fetches EXCEPT ![c][i] =
                 [f EXCEPT !.pc = "respOk", !.nextBlock = next_block,
                           !.transactions = r.transactions,
                           !.totalTransactions = TotalTransactions(r.seen)]]
  /\ delivered' = delivered + Len(logs)
  /\ UNCHANGED <<clientVars, pendingHeight, polls>>

\* ------------------------------------------------------- fetchChainData
\* mutant: slice(0, N) for slice(-N), the oldest transfers are kept
PushTransactionsKeepOldest(existing, newTransactions, totalTransactions) ==
  [transactions |-> SubSeq(existing.transactions \o newTransactions, 1,
                           Min(Len(existing.transactions \o newTransactions),
                               MAX_TRANSACTIONS_PER_CHAIN)),
   totalCount |-> totalTransactions]

\* the functional update passed to setChainData
PushTransactions(existing, newTransactions, totalTransactions) ==
  [transactions |-> SliceLast(existing.transactions \o newTransactions,
                              MAX_TRANSACTIONS_PER_CHAIN),
   totalCount |-> totalTransactions]

\* mutant: the feed entry is written for every chain
FetchChainDataResumeShared(c, i) ==
  LET f == fetches[c][i] IN
  /\ f.pc \in {"respOk", "respErr"}
  /\ fetches' = [fetches EXCEPT ![c][i] = DoneFetch(f)]
  /\ IF f.pc = "respErr"
       THEN /\ error' = <<c, f.error>>
            /\ UNCHANGED <<chainData, isLoading>>
       ELSE /\ error' = NoError
            /\ chainData' = [b \in Chains |->
                 PushTransactions(chainData[b], f.transactions, f.totalTransactions)]
            /\ isLoading' = FALSE
  /\ UNCHANGED <<serverVars, lastHeightRef, pendingHeight, polls, delivered>>

\* the answer of GET reached the client: the rest of fetchChainData
FetchChainDataResume(c, i) ==
  LET f == fetches[c][i] IN
  /\ f.pc \in {"respOk", "respErr"}
  /\ fetches' = [fetches EXCEPT ![c][i] = DoneFetch(f)]
  /\ IF f.pc = "respErr"
       THEN /\ error' = <<c, f.error>>
            /\ UNCHANGED <<chainData, isLoading>>
       ELSE /\ error' = NoError
            /\ chainData' = [chainData EXCEPT ![c] =
                 PushTransactions(@, f.transactions, f.totalTransactions)]
            /\ isLoading' = FALSE
  /\ UNCHANGED <<serverVars, lastHeightRef, pendingHeight, polls, delivered>>

\* ------------------------------------------------------------- history
RecHeights(c, currentHeight) ==
  /\ heightLog' = [heightLog EXCEPT ![c] = Append(@, currentHeight)]
  /\ heightUpdates' = [heightUpdates EXCEPT ![c] =
        IF lastHeightRef'[c] # lastHeightRef[c] THEN @ + 1 ELSE @]

RecAppeared(c, logs) ==
  appeared' = [appeared EXCEPT ![c] =
     @ \cup {logs[k].transaction_hash : k \in {k \in 1..Len(logs) : logs[k].decodable}}]

\* the logs of a batch that decode, in order
Decodable(logs) == SelectSeq(logs, LAMBDA log : log.decodable)

RecUndecoded(c, logs) ==
  undecoded' = [undecoded EXCEPT ![c] = @ + Len(logs) - Len(Decodable(logs))]

\* the from_block of the log query that failed, and the number of
\* fetchChainData calls made for the chain by then
RecFailed(c, i) ==
  lastFailed' = [lastFailed EXCEPT ![c] =
     [fromBlock |-> fetches[c][i].fromBlock, issued |-> Len(fetches[c])]]

\* streak: the checks of the chain that failed since the last one that
\* returned; before: the streak that the latest check that started a fetch
\* put an end to
RecCheckFailed(c) ==
  heightFailures' = [heightFailures EXCEPT ![c].streak = @ + 1]

RecCheckReturned(c) ==
  heightFailures' = [heightFailures EXCEPT ![c] =
     [streak |-> 0,
      before |-> IF Len(fetches'[c]) > Len(fetches[c]) THEN @.streak ELSE @.before]]

RecPushed(c, i) ==
  pushed' = [pushed EXCEPT ![c] =
     IF fetches[c][i].pc = "respOk" THEN @ \o fetches[c][i].transactions ELSE @]

\* ------------------------------------------------------------------ Next
FetchIds(c) == 1..Len(fetches[c])
\* the history, and the Radar, which the ingest side does not touch
noHist == <<heightLog, heightUpdates, appeared, pushed, undecoded, lastFailed,
            heightFailures, radarVars, radarHist>>
radarIdle == <<radarVars, radarHist>>

\* The three specifications run the same handlers and differ in what the
\* provider answers and in which history is recorded.

\* Spec: the ingest side.  The provider answers the log query with any batch
\* of logs; the block numbers it reports are fixed.
FixedAnswer == [next_block |-> 60, archive_height |-> 10050]

Next ==
  \/ \E c \in Chains : polls < MaxPolls /\ PollStart(c) /\ UNCHANGED noHist
  \/ \E c \in Chains : CheckHeightFailed(c) /\ UNCHANGED noHist
  \/ \E c \in Chains, h \in PollHeights : CheckHeightReturned(c, h) /\ UNCHANGED noHist
  \/ \E c \in Chains : \E i \in FetchIds(c) : GETStart(c, i) /\ UNCHANGED noHist
  \/ \E c \in Chains : \E i \in FetchIds(c) :
       GETHeightResponse(c, i, TRUE, FixedAnswer.archive_height) /\ UNCHANGED noHist
  \/ \E c \in Chains : \E i \in FetchIds(c) : GETFetchRejected(c, i) /\ UNCHANGED noHist
  \/ \E c \in Chains : \E i \in FetchIds(c) : GETQueryFailed(c, i) /\ UNCHANGED noHist
  \/ \E c \in Chains : \E i \in FetchIds(c) :
       \E logs \in LogBatches(MaxLogs - delivered), throws \in BOOLEAN, coin \in BOOLEAN :
         /\ GETQueryResponse(c, i, FixedAnswer.next_block, FixedAnswer.archive_height,
                             logs, throws, coin)
         /\ RecAppeared(c, logs)
         /\ RecUndecoded(c, logs)
         /\ UNCHANGED <<heightLog, heightUpdates, pushed, lastFailed, heightFailures, radarIdle>>
  \/ \E c \in Chains : \E i \in FetchIds(c) :
       /\ FetchChainDataResume(c, i)
       /\ RecPushed(c, i)
       /\ UNCHANGED <<heightLog, heightUpdates, appeared, undecoded, lastFailed, heightFailures, radarIdle>>

Spec == Init /\ [][Next]_vars

\* SpecCursor: the cursor.  The provider reports any block numbers and
\* answers without logs.
NextCursorSpec ==
  \/ \E c \in Chains : polls < MaxPolls /\ PollStart(c) /\ UNCHANGED noHist
  \/ \E c \in Chains : CheckHeightFailed(c) /\ UNCHANGED noHist
  \/ \E c \in Chains, h \in PollHeights : CheckHeightReturned(c, h) /\ UNCHANGED noHist
  \/ \E c \in Chains : \E i \in FetchIds(c) : GETStart(c, i) /\ UNCHANGED noHist
  \/ \E c \in Chains : \E i \in FetchIds(c) :
       \E ok \in BOOLEAN, ah \in ArchiveHeights :
         GETHeightResponse(c, i, ok, ah) /\ UNCHANGED noHist
  \/ \E c \in Chains : \E i \in FetchIds(c) : GETFetchRejected(c, i) /\ UNCHANGED noHist
  \/ \E c \in Chains : \E i \in FetchIds(c) :
       /\ GETQueryFailed(c, i)
       /\ RecFailed(c, i)
       /\ UNCHANGED <<heightLog, heightUpdates, appeared, pushed, undecoded, heightFailures, radarIdle>>
  \/ \E c \in Chains : \E i \in FetchIds(c) :
       \E nb \in NextBlocks, ah \in ArchiveHeights, throws \in BOOLEAN :
         GETQueryResponse(c, i, nb, ah, <<>>, throws, FALSE) /\ UNCHANGED noHist
  \/ \E c \in Chains : \E i \in FetchIds(c) : FetchChainDataResume(c, i) /\ UNCHANGED noHist

SpecCursor == Init /\ [][NextCursorSpec]_vars

\* SpecTracker: the height tracker.  The provider reports any heights, and
\* answers the log query without logs and with fixed block numbers.
TimerTick == \E c \in Chains : polls < MaxTrackerPolls /\ PollStart(c) /\ UNCHANGED noHist
CheckFails ==
  \E c \in Chains :
    /\ CheckHeightFailed(c)
    /\ RecCheckFailed(c)
    /\ UNCHANGED <<heightLog, heightUpdates, appeared, pushed, undecoded, lastFailed,
                   radarIdle>>
CheckReturns ==
  \E c \in Chains, h \in PollHeights :
    CheckHeightReturned(c, h) /\ RecHeights(c, h) /\ RecCheckReturned(c)
      /\ UNCHANGED <<appeared, pushed, undecoded, lastFailed, radarIdle>>

NextTracker ==
  \/ TimerTick
  \/ CheckFails
  \/ CheckReturns
  \/ \E c \in Chains : \E i \in FetchIds(c) : GETStart(c, i) /\ UNCHANGED noHist
  \/ \E c \in Chains : \E i \in FetchIds(c) :
       GETHeightResponse(c, i, TRUE, FixedAnswer.archive_height) /\ UNCHANGED noHist
  \/ \E c \in Chains : \E i \in FetchIds(c) : GETFetchRejected(c, i) /\ UNCHANGED noHist
  \/ \E c \in Chains : \E i \in FetchIds(c) : GETQueryFailed(c, i) /\ UNCHANGED noHist
  \/ \E c \in Chains : \E i \in FetchIds(c) :
       GETQueryResponse(c, i, FixedAnswer.next_block, FixedAnswer.archive_height,
                        <<>>, FALSE, FALSE)
         /\ UNCHANGED noHist
  \/ \E c \in Chains : \E i \in FetchIds(c) : FetchChainDataResume(c, i) /\ UNCHANGED noHist

SpecTracker == Init /\ [][NextTracker]_vars

\* SpecTrackerLive: the height tracker under fair scheduling.  setInterval
\* fires while the run lasts, and every checkHeight call settles (its
\* try/catch turns a rejected fetch into null).
SpecTrackerLive == SpecTracker /\ WF_vars(TimerTick) /\ WF_vars(CheckFails \/ CheckReturns)

\* ================================================================= radar
\* A raw amount (the decimal string tx.value, 6 decimals) is the pair of its
\* whole dollars and its last six digits, so that BigInt(value) / 1_000_000n
\* is its units; a string BigInt() rejects is Unparseable.
Unparseable == [parses |-> FALSE, units |-> 0, rest |-> 0]
USDC(units, rest) == [parses |-> TRUE, units |-> units, rest |-> rest]

RECURSIVE Pow10(_)
Pow10(k) == IF k = 0 THEN 1 ELSE 10 * Pow10(k - 1)

\* the transfers handed to the Radar: transfer h moves 10^h dollars
RadarHashes == 1..MaxRadarTx
RadarTx(h) == [transactionHash |-> h, value |-> USDC(Pow10(h), 0)]
RadarFeeds == UNION {[1..k -> {RadarTx(h) : h \in RadarHashes}] : k \in 1..MaxFeedLen}
\* Math.random() * Math.PI * 2
BlipAngles == {5, 100, 400}
\* Math.random(), in thousandths: 0 at least, less than 1
Randoms == {0, 999}
\* Math.random() * Math.PI * 2, in hundredths of a radian
BlipAngleOf(random) == (random * TURN) \div 1000
\* 0.3 + Math.random() * 0.6, in thousandths of the radius
BlipDistanceOf(random) == 300 + (random * 600) \div 1000
\* blips at the given angles, half way between the least and the greatest
\* distance
Placed(angles) ==
  [h \in DOMAIN angles |-> [angle |-> angles[h], distance |-> BlipDistanceOf(500)]]
\* blips where two draws of Math.random() put them
Drawn(draws) ==
  [h \in DOMAIN draws |-> [angle |-> BlipAngleOf(draws[h][1]),
                           distance |-> BlipDistanceOf(draws[h][2])]]
BlockTimes == {1, 4}
Elapsed == 1..MaxElapsed

visualRotationTime == Max(blockTime, MIN_ROTATION_TIME)
\* rotationSpeedPerSecond * deltaTime
SweepAdvance(deltaTime) == (TURN * deltaTime) \div visualRotationTime
\* fadeProgress is kept as fadeProgress * visualRotationTime, so that
\* fadeSpeedPerSecond * deltaTime is deltaTime and 1 is visualRotationTime
FadeAdvance(deltaTime) == deltaTime
FADE_DONE == visualRotationTime

\* Math.log10 in thousandths, rounded down to the leading digit of n (exact
\* at the powers of ten)
LeadLog10 == <<0, 301, 477, 602, 698, 778, 845, 903, 954>>
RECURSIVE Log10Milli(_)
Log10Milli(n) == IF n < 10 THEN LeadLog10[n] ELSE 1000 + Log10Milli(n \div 10)

\* mutant: the size is not clamped
calculateBlipSizeUnclamped(valueString) ==
  IF ~valueString.parses THEN DEFAULT_SIZE
  ELSE LET valueInUSDC == valueString.units
           logValue == Log10Milli(Max(valueInUSDC, 1))
       IN minSize + (logValue * (maxSize - minSize)) \div 6000

calculateBlipSize(valueString) ==
  IF ~valueString.parses THEN DEFAULT_SIZE
  ELSE LET valueInUSDC == valueString.units
           logValue == Log10Milli(Max(valueInUSDC, 1))
           size == minSize + (logValue * (maxSize - minSize)) \div 6000
       IN Min(Max(size, minSize), maxSize)

\* the effect on [transactions]: a blip for every transfer not yet displayed
RECURSIVE AddTransactions(_, _, _, _, _)
AddTransactions(txs, places, blips, seen, n) ==
  IF txs = <<>> THEN [blips |-> blips, seen |-> seen, n |-> n]
  ELSE LET tx == Head(txs) IN
       IF tx.transactionHash \in Range(seen)
         THEN AddTransactions(Tail(txs), places, blips, seen, n)
       ELSE AddTransactions(Tail(txs), places,
              Append(blips, [angle |-> places[tx.transactionHash].angle,
                             distance |-> places[tx.transactionHash].distance,
                             fadeProgress |-> 0,
                             hash |-> tx.transactionHash,
                             size |-> calculateBlipSize(tx.value),
                             discovered |-> FALSE, value |-> tx.value,
                             id |-> n + 1]),
              Append(seen, tx.transactionHash), n + 1)

\* the hashes of a prop that are not in the Set
NewHashes(txs) == {txs[k].transactionHash : k \in 1..Len(txs)} \ Range(seenHashesRef)

\* the transactions prop changed (an empty prop returns at once, a prop
\* without a new hash changes nothing); angles are the draws of
\* Math.random() for the new hashes, id numbers the blips (history)
FeedUpdate(txs, places) ==
  LET r == AddTransactions(txs, places, radarTransactions, seenHashesRef, blipsCreated) IN
  /\ radarTransactions' = r.blips
  /\ seenHashesRef' = r.seen
  /\ blipsCreated' = r.n
  /\ UNCHANGED <<blockTime, sweepAngleRef, previousSweepAngleRef, lastFrameTimeRef,
                 hoveredBlip, effectHoveredBlip, renderPending, ingestVars>>

\* mutant: the wraparound case is tested like the normal case
CrossedNoWrap(blipAngle, previousSweepAngle, currentSweepAngle) ==
  blipAngle >= previousSweepAngle /\ blipAngle <= currentSweepAngle

\* "Check if blip angle is between previous and current sweep position"
Crossed(blipAngle, previousSweepAngle, currentSweepAngle) ==
  IF currentSweepAngle >= previousSweepAngle
    THEN blipAngle >= previousSweepAngle /\ blipAngle <= currentSweepAngle
    ELSE blipAngle >= previousSweepAngle \/ blipAngle <= currentSweepAngle

\* mutant: the flag is computed anew in every frame
DiscoverRecomputed(blips, previousSweepAngle, currentSweepAngle) ==
  [k \in 1..Len(blips) |->
     [blips[k] EXCEPT !.discovered =
        Crossed(blips[k].angle, previousSweepAngle, currentSweepAngle)]]

\* the forEach of drawRadar: discovery
Discover(blips, previousSweepAngle, currentSweepAngle) ==
  [k \in 1..Len(blips) |->
     IF ~blips[k].discovered
          /\ Crossed(blips[k].angle, previousSweepAngle, currentSweepAngle)
       THEN [blips[k] EXCEPT !.discovered = TRUE]
       ELSE blips[k]]

\* the map and filter of drawRadar: fade and removal
\* mutant: the blips that have faded out stay
FadeKeepAll(blips, hoveredHash, deltaTime) ==
  [k \in 1..Len(blips) |->
     IF blips[k].hash = hoveredHash THEN blips[k]
     ELSE [blips[k] EXCEPT !.fadeProgress = @ + FadeAdvance(deltaTime)]]

Fade(blips, hoveredHash, deltaTime) ==
  SelectSeq([k \in 1..Len(blips) |->
               IF blips[k].hash = hoveredHash THEN blips[k]
               ELSE [blips[k] EXCEPT !.fadeProgress = @ + FadeAdvance(deltaTime)]],
            LAMBDA tx : tx.fadeProgress < FADE_DONE)

\* "Cleanup old seen hashes"
CleanupSeenHashes(seen) ==
  IF Len(seen) > RADAR_SEEN_CEILING THEN SliceLast(seen, RADAR_SEEN_KEEP) ELSE seen

\* history of a frame: the seconds since the discovery of each blip that is
\* left (counted up to AgeCap), and which of them were hovered
AgeCap == visualRotationTime + MaxElapsed
BlipIds(blips) == {blips[k].id : k \in 1..Len(blips)}
DiscoveredIds(blips) == {blips[k].id : k \in {k \in 1..Len(blips) : blips[k].discovered}}
RecFrame(elapsed) ==
  /\ sinceDiscovered' =
       [id \in DiscoveredIds(radarTransactions') |->
          IF id \in DOMAIN sinceDiscovered
            THEN Min(sinceDiscovered[id] + elapsed, AgeCap) ELSE 0]
  /\ hoveredSince' = hoveredSince \cap BlipIds(radarTransactions')
  /\ UNCHANGED <<displayed, clock, stamps, threshold>>

\* history of a hover: the blips the pointer is on
RecHover(found) ==
  /\ hoveredSince' = hoveredSince \cup
       {radarTransactions[k].id : k \in {k \in 1..Len(radarTransactions) :
                                           radarTransactions[k].hash = found}}
  /\ UNCHANGED <<sinceDiscovered, displayed, clock, stamps, threshold>>

\* one animation frame, elapsed seconds after the previous one
drawRadar(elapsed) ==
  LET deltaTime == IF lastFrameTimeRef = 0 THEN 0 ELSE elapsed
      discovered == Discover(radarTransactions, previousSweepAngleRef, sweepAngleRef)
  IN
  /\ lastFrameTimeRef' = 1
  /\ previousSweepAngleRef' = sweepAngleRef
  /\ sweepAngleRef' = (sweepAngleRef + SweepAdvance(deltaTime)) % TURN
  /\ radarTransactions' = Fade(discovered, effectHoveredBlip, deltaTime)
  /\ seenHashesRef' = CleanupSeenHashes(seenHashesRef)
  /\ UNCHANGED <<blockTime, hoveredBlip, effectHoveredBlip, renderPending,
                 blipsCreated, ingestVars>>

\* setHoveredBlip: a re-render follows unless null is replaced by null
SetHoveredBlip(found) ==
  /\ hoveredBlip' = found
  /\ renderPending' = (renderPending \/ found # NoHover \/ hoveredBlip # NoHover)
  /\ UNCHANGED <<blockTime, radarTransactions, sweepAngleRef, previousSweepAngleRef,
                 seenHashesRef, lastFrameTimeRef, effectHoveredBlip,
                 blipsCreated, ingestVars>>

\* the hashes handleMouseMove can find under the pointer
Hoverable == {radarTransactions[k].hash :
                k \in {k \in 1..Len(radarTransactions) : radarTransactions[k].discovered}}
handleMouseMove(found) == found \in Hoverable \cup {NoHover} /\ SetHoveredBlip(found)
handleMouseLeave == SetHoveredBlip(NoHover)

\* the re-render after setHoveredBlip: the animation effect is cleaned up
\* and runs again, closing over the new hoveredBlip
RenderEffect ==
  /\ renderPending
  /\ renderPending' = FALSE
  /\ effectHoveredBlip' = hoveredBlip
  /\ lastFrameTimeRef' = 0
  /\ UNCHANGED <<blockTime, radarTransactions, sweepAngleRef, previousSweepAngleRef,
                 seenHashesRef, hoveredBlip, blipsCreated, ingestVars>>

InitRadar == IngestInit /\ \E bt \in BlockTimes : RadarMount(bt)

\* SpecRadar: the engine under any feed, frames and pointer.
NextRadar ==
  \/ \E txs \in RadarFeeds :
       /\ NewHashes(txs) # {}
       /\ \E angles \in [NewHashes(txs) -> BlipAngles] :
            FeedUpdate(txs, Placed(angles)) /\ UNCHANGED radarHist
  \/ \E elapsed \in Elapsed : drawRadar(elapsed) /\ UNCHANGED radarHist
  \/ \E found \in RadarHashes \cup {NoHover} :
       handleMouseMove(found) /\ UNCHANGED radarHist
  \/ handleMouseLeave /\ UNCHANGED radarHist
  \/ RenderEffect /\ UNCHANGED radarHist

SpecRadar == InitRadar /\ [][NextRadar]_vars

\* SpecRadarLive: every frame requests the next one (requestAnimationFrame
\* at the end of drawRadar), and React runs the effect of a render
FrameTick == \E elapsed \in Elapsed : drawRadar(elapsed) /\ UNCHANGED radarHist
EffectRuns == RenderEffect /\ UNCHANGED radarHist
SpecRadarLive == SpecRadar /\ WF_vars(FrameTick) /\ WF_vars(EffectRuns)

\* SpecFade: the same engine with the time since each discovery recorded.
NextFade ==
  \/ \E txs \in RadarFeeds :
       /\ NewHashes(txs) # {}
       /\ \E angles \in [NewHashes(txs) -> BlipAngles] :
            FeedUpdate(txs, Placed(angles)) /\ UNCHANGED radarHist
  \/ \E elapsed \in Elapsed : drawRadar(elapsed) /\ RecFrame(elapsed)
  \/ \E found \in RadarHashes \cup {NoHover} :
       handleMouseMove(found) /\ RecHover(found)
  \/ handleMouseLeave /\ UNCHANGED radarHist
  \/ RenderEffect /\ UNCHANGED radarHist

SpecFade == InitRadar /\ [][NextFade]_vars

\* SpecClock: SpecRadar with the time that has passed since the first frame
\* after the mount, counted modulo the rotation time
RecClock(elapsed) ==
  /\ clock' = [ticked |-> TRUE,
               total |-> IF clock.ticked
                           THEN (clock.total + elapsed) % visualRotationTime
                           ELSE 0]
  /\ UNCHANGED <<sinceDiscovered, hoveredSince, displayed, stamps, threshold>>

NextClock ==
  \/ \E txs \in RadarFeeds :
       /\ NewHashes(txs) # {}
       /\ \E angles \in [NewHashes(txs) -> BlipAngles] :
            FeedUpdate(txs, Placed(angles)) /\ UNCHANGED radarHist
  \/ \E elapsed \in Elapsed : drawRadar(elapsed) /\ RecClock(elapsed)
  \/ \E found \in RadarHashes \cup {NoHover} :
       handleMouseMove(found) /\ UNCHANGED radarHist
  \/ handleMouseLeave /\ UNCHANGED radarHist
  \/ RenderEffect /\ UNCHANGED radarHist

SpecClock == InitRadar /\ [][NextClock]_vars

\* SpecBlip: SpecRadar with the blips where Math.random() puts them, the
\* least and the greatest draw
NextBlip ==
  \/ \E txs \in RadarFeeds :
       /\ NewHashes(txs) # {}
       /\ \E draws \in [NewHashes(txs) -> Randoms \X Randoms] :
            FeedUpdate(txs, Drawn(draws)) /\ UNCHANGED radarHist
  \/ \E elapsed \in Elapsed : drawRadar(elapsed) /\ UNCHANGED radarHist
  \/ \E found \in RadarHashes \cup {NoHover} :
       handleMouseMove(found) /\ UNCHANGED radarHist
  \/ handleMouseLeave /\ UNCHANGED radarHist
  \/ RenderEffect /\ UNCHANGED radarHist

SpecBlip == InitRadar /\ [][NextBlip]_vars

\* SpecSize: the transactions prop carries any of the amounts below, and the
\* effect on [transactions] sizes the blips.
AmountUnits == {-5, 0, 1, 9, 10, 150, 1000, 999999, 1000000, 10000000}
Amounts ==
  {Unparseable} \cup {USDC(u, 0) : u \in AmountUnits}
    \cup {USDC(0, -1), USDC(0, 999999), USDC(999999, 999999), USDC(1000000, 1)}
\* one transfer is new in each prop (a longer prop adds its new transfers in
\* order, one blip after the other)
SizedFeeds == {<<tx>> : tx \in [transactionHash : RadarHashes, value : Amounts]}

NextSize ==
  \E txs \in SizedFeeds :
    /\ NewHashes(txs) # {}
    /\ FeedUpdate(txs, Placed([h \in NewHashes(txs) |-> 5])) /\ UNCHANGED radarHist

SpecSize == Init /\ [][NextSize]_vars

\* SpecStamp: the timestamp GET gives a transfer.  A block timestamp of the
\* answer is missing (undefined), a number of seconds, or a string; Date.now()
\* is a number of milliseconds.  Times are small numbers, the block times
\* in seconds before the times of Date.now().
Undefined == [type |-> "undefined"]
Number(n) == [type |-> "number", n |-> n]
HexString == [type |-> "string"]
BlockTimestamps == {Undefined, HexString} \cup {Number(n) : n \in {0, 5, 7}}
Nows == {6000, 8000}

\* x || y takes y for undefined, 0, NaN and the empty string
Falsy(x) == x.type = "undefined" \/ (x.type = "number" /\ x.n = 0)

\* route.ts: const timestamp = blocks?.[0]?.timestamp || Date.now(), then
\* typeof timestamp === 'number' ? timestamp * 1000 : Date.now()
TransferTimestamp(blockTimestamp, now) ==
  LET timestamp == IF Falsy(blockTimestamp) THEN Number(now) ELSE blockTimestamp
  IN IF timestamp.type = "number" THEN timestamp.n * 1000 ELSE now

\* GET decodes a log and pushes its transfer
StampTransfer(blockTimestamp, now) ==
  /\ Len(stamps) < MaxStamps
  /\ stamps' = Append(stamps, [blockTimestamp |-> blockTimestamp, now |-> now,
                                timestamp |-> TransferTimestamp(blockTimestamp, now)])
  /\ UNCHANGED <<ingestVars, radarVars, sinceDiscovered, hoveredSince, displayed, clock,
                 threshold>>

NextStamp ==
  \E blockTimestamp \in BlockTimestamps, now \in Nows :
    StampTransfer(blockTimestamp, now)

SpecStamp == Init /\ [][NextStamp]_vars

\* SpecDedup: the Radar of chain 1 fed by the feed of the chain, through
\* the page.  Transfers are numbered as they first come; a transfer that
\* came before may come again (the route has dropped its hash from the
\* seen set, or has restarted); the runs are bounded to those where it comes
\* again while its blip is on the radar and it is out of the feed.
RadarChain == 1

\* page.tsx: the feed entries whose value in whole dollars is not below the
\* threshold
filterByThreshold(transactions, atLeast) ==
  SelectSeq(transactions, LAMBDA h : RadarTx(h).value.units >= atLeast)

\* page.tsx: the transactions prop of the Radar
RadarProp(atLeast) ==
  LET filtered == filterByThreshold(chainData[RadarChain].transactions, atLeast)
  IN [k \in 1..Len(filtered) |-> RadarTx(filtered[k])]

\* the thresholds that tell the entries of the feed apart: every entry
\* passes 0, the entries from h on pass the value of h
Thresholds ==
  {0} \cup {RadarTx(h).value.units : h \in Range(chainData[RadarChain].transactions)}

\* fetchChainData got a 200 answer with the transfer h
FeedPush(h) ==
  /\ error' = NoError
  /\ chainData' = [chainData EXCEPT ![RadarChain] =
        PushTransactions(@, <<h>>, @.totalCount + 1)]
  /\ isLoading' = FALSE
  /\ delivered' = delivered + 1
  /\ UNCHANGED <<serverVars, lastHeightRef, pendingHeight, fetches, polls, radarVars>>

RecFeedPush(h) ==
  /\ pushed' = [pushed EXCEPT ![RadarChain] = Append(@, h)]
  /\ displayed' = displayed \cap Range(chainData'[RadarChain].transactions)
  /\ UNCHANGED <<heightLog, heightUpdates, appeared, undecoded, lastFailed,
                 heightFailures, sinceDiscovered, hoveredSince, clock, stamps, threshold>>

\* the page rendered: the effect on [transactions] runs with the new prop
PageRender(atLeast) ==
  LET txs == RadarProp(atLeast) IN
  /\ NewHashes(txs) # {}
  /\ FeedUpdate(txs, Placed([h \in NewHashes(txs) |-> 5]))

RecPageRender(atLeast) ==
  /\ displayed' = (displayed \cup NewHashes(RadarProp(atLeast)))
                     \cap Range(chainData[RadarChain].transactions)
  /\ UNCHANGED <<sinceDiscovered, hoveredSince, clock, stamps, threshold>>

\* the transfers that can come next: the first one not seen so far, or one
\* that came before
StreamHashes ==
  LET came == Range(pushed[RadarChain])
      again == Len(pushed[RadarChain]) - Cardinality(came)
      onRadar == {radarTransactions[k].hash : k \in 1..Len(radarTransactions)}
  IN {Cardinality(came) + 1}
       \cup (IF again < MaxReplay
             THEN onRadar \ Range(chainData[RadarChain].transactions)
             ELSE {})

NextDedup ==
  \/ \E h \in StreamHashes : delivered < MaxStream /\ FeedPush(h) /\ RecFeedPush(h)
  \/ \E atLeast \in Thresholds :
       /\ Len(radarTransactions) + Cardinality(NewHashes(RadarProp(atLeast))) <= MaxBlips
       /\ PageRender(atLeast) /\ RecPageRender(atLeast)
  \/ \E elapsed \in Elapsed : drawRadar(elapsed) /\ UNCHANGED radarHist
  \/ \E found \in Hoverable \cup {NoHover} :
       handleMouseMove(found) /\ UNCHANGED radarHist
  \/ handleMouseLeave /\ UNCHANGED radarHist
  \/ RenderEffect /\ UNCHANGED radarHist

SpecDedup == Init /\ [][NextDedup]_vars

\* SpecFilter: the page with its threshold slider, the feed of chain 1 and
\* the Radar of the chain
ThresholdChoices == {0, 100, 1000}

\* the slider was moved: setThreshold, the page renders with the new
\* threshold and the effect on [transactions] of the Radar runs
SetThreshold(t) ==
  /\ t # threshold
  /\ threshold' = t
  /\ IF NewHashes(RadarProp(t)) # {}
       THEN PageRender(t)
       ELSE UNCHANGED <<ingestVars, radarVars>>
  /\ UNCHANGED <<sinceDiscovered, hoveredSince, displayed, clock, stamps>>

NextFilter ==
  \/ \E h \in StreamHashes :
       /\ delivered < MaxStream
       /\ FeedPush(h) /\ RecFeedPush(h)
  \/ PageRender(threshold) /\ UNCHANGED radarHist
  \/ \E t \in ThresholdChoices : SetThreshold(t)
  \/ \E elapsed \in Elapsed : drawRadar(elapsed) /\ UNCHANGED radarHist

SpecFilter == Init /\ [][NextFilter]_vars

\* ================================================================ claims
Last(q) == q[Len(q)]
PendingFetches(c) == {i \in FetchIds(c) : Pending(fetches[c][i])}

\* C1 (stated as claimed, refuted): whenever GET answers 200, the
\* totalTransactions it reports equals the number of distinct transaction
\* hashes that have appeared in decodable logs of the chain's answers so far.
C1_DedupCount ==
  [][\A c \in Chains : \A i \in FetchIds(c) :
       (fetches[c][i].pc = "query" /\ fetches'[c][i].pc = "respOk")
         => fetches'[c][i].totalTransactions = Cardinality(appeared'[c])]_vars

\* C2 (stated as claimed, refuted): when the answer of a fetch that ran with
\* no other fetch of its chain pending is stored in the feed, totalCount does
\* not decrease.
C2_CountMonotone ==
  [][\A c \in Chains : \A i \in FetchIds(c) :
       (fetches[c][i].pc = "respOk" /\ fetches[c][i].alone /\ fetches'[c][i].pc = "done")
         => chainData'[c].totalCount >= chainData[c].totalCount]_vars

\* C3: a GET that ran with no other fetch of its chain pending, and whose
\* answer carries no next_block below the queried from_block, does not
\* decrease lastSeenBlocks.
C3_CursorMonotone ==
  [][\A c \in Chains : \A i \in FetchIds(c) :
       ( /\ fetches[c][i].pc = "query"
         /\ fetches'[c][i].pc \in {"respOk", "respErr"}
         /\ fetches[c][i].alone
         /\ \/ fetches'[c][i].nextBlock = 0
            \/ fetches'[c][i].nextBlock >= fetches[c][i].fromBlock )
         => lastSeenBlocks'[c] >= lastSeenBlocks[c]]_vars

\* C3 witness: the second fetch of a chain, run alone, queried from block 50
\* and moved the cursor on to block 60.
C3_Witness ==
  \E c \in Chains :
    /\ Len(fetches[c]) >= 2
    /\ fetches[c][2].pc = "respOk" /\ fetches[c][2].alone
    /\ fetches[c][2].fromBlock = 50 /\ fetches[c][2].nextBlock = 60
    /\ lastSeenBlocks[c] = 60

\* C4: the feed of a chain never holds more than MAX_TRANSACTIONS_PER_CHAIN
\* transfers, and after n transfers were pushed it holds the last
\* min(n, MAX_TRANSACTIONS_PER_CHAIN) of them in the order of their arrival.
C4_BoundedFeed ==
  \A c \in Chains :
    LET tx == chainData[c].transactions
        n == Len(pushed[c])
        k == Min(n, MAX_TRANSACTIONS_PER_CHAIN)
    IN /\ Len(tx) <= MAX_TRANSACTIONS_PER_CHAIN
       /\ Len(tx) = k
       /\ \A j \in 1..k : tx[j] = pushed[c][n - k + j]

\* C4 witness: more distinct transfers than the capacity were pushed, the
\* oldest was evicted and totalCount counts them all.
C4_Witness ==
  \E c \in Chains :
    /\ Len(pushed[c]) > MAX_TRANSACTIONS_PER_CHAIN
    /\ Cardinality(Range(pushed[c])) = Len(pushed[c])
    /\ chainData[c].totalCount = Len(pushed[c])
    /\ pushed[c][1] \notin Range(chainData[c].transactions)

\* C5 (stated as claimed, refuted): the Set of seen hashes never holds more
\* than SEEN_CEILING hashes.
C5_SeenBounded ==
  \A c \in Chains : Len(seenTransactions[c]) <= SEEN_CEILING

\* C6: a poll changes lastHeightRef and starts a fetch exactly when its
\* height check succeeded and it is the chain's first successful check or the
\* height is above lastHeightRef; any other poll changes nothing but the
\* count of pending checks.  So the fetches started for a chain never
\* outnumber the updates of its lastHeightRef.
C6_HeightGating ==
  [][\A c \in Chains :
       LET polled == pendingHeight'[c] = pendingHeight[c] - 1
           succeeded == heightLog'[c] # heightLog[c]
           first == heightLog[c] = <<>>
           updated == lastHeightRef'[c] # lastHeightRef[c]
           fetched == Len(fetches'[c]) = Len(fetches[c]) + 1
       IN /\ updated <=> fetched
          /\ fetched <=> ( /\ polled /\ succeeded
                           /\ first \/ Last(heightLog'[c]) > lastHeightRef[c] )
          /\ fetched => lastHeightRef'[c] = Last(heightLog'[c])
          /\ (polled /\ ~fetched) =>
               UNCHANGED <<serverVars, clientVars, fetches>>
          /\ Len(fetches'[c]) <= heightUpdates'[c]]_vars

\* C6 witness: three checks of a chain succeeded, one failed or is pending,
\* and two fetches were started.
C6_Witness ==
  \E c \in Chains :
    /\ Len(heightLog[c]) = 3 /\ polls = MaxTrackerPolls
    /\ Len(fetches[c]) = 2 /\ heightUpdates[c] = 2

\* C7 (stated as claimed, refuted): the heights 100, 100, 100, 101 polled in
\* this order start exactly one fetch.
C7_OneQuery ==
  \A c \in Chains :
    heightLog[c] = <<100, 100, 100, 101>> => Len(fetches[c]) = 1

\* C7 as amended: the heights 100, 100, 100, 101 polled in this order start
\* exactly two fetches: one on the first poll (lastHeightRef unset), none on
\* the second and third, one on the transition 100 to 101.
C7_TwoQueries ==
  \A c \in Chains :
    /\ heightLog[c] \in {<<100>>, <<100, 100>>, <<100, 100, 100>>}
         => Len(fetches[c]) = 1
    /\ heightLog[c] = <<100, 100, 100, 101>> => Len(fetches[c]) = 2

C7_Witness ==
  \E c \in Chains : heightLog[c] = <<100, 100, 100, 101>>

\* C8 (stated as claimed, refuted): at most one fetch per chain is pending.
C8_SingleFetchInFlight ==
  \A c \in Chains : Cardinality(PendingFetches(c)) <= 1

\* C9: a fetch whose log query is answered non-ok changes neither the
\* cursor, the seen Set nor the feed of its chain in any of its steps, and
\* ends by setting the hook's error to the failure of that chain.
C9_FailedQueryFrame ==
  [][\A c \in Chains : \A i \in FetchIds(c) :
       LET f == fetches[c][i]
           g == fetches'[c][i]
           failing == f.pc = "query" /\ g.pc = "respErr" /\ g.error = QueryFailedMsg
           reporting == f.pc = "respErr" /\ f.error = QueryFailedMsg /\ g.pc = "done"
       IN /\ (failing \/ reporting) =>
               /\ lastSeenBlocks' = lastSeenBlocks
               /\ seenTransactions' = seenTransactions
               /\ chainData' = chainData
          /\ reporting => error' = <<c, QueryFailedMsg>>]_vars

\* C9 witness: a log query failed for a chain that had a cursor, seen hashes
\* and a feed, and the failure is the hook's error.
C9_Witness ==
  \E c \in Chains :
    /\ error = <<c, QueryFailedMsg>>
    /\ lastSeenBlocks[c] # 0
    /\ seenTransactions[c] # <<>>
    /\ chainData[c].transactions # <<>>
    /\ chainData[c].totalCount = Len(seenTransactions[c])

\* C10 (stated as claimed, refuted): a GET that answers with an error leaves
\* lastSeenBlocks as it was.
C10_ErrorKeepsCursor ==
  [][\A c \in Chains : \A i \in FetchIds(c) :
       (fetches[c][i].pc # "respErr" /\ fetches'[c][i].pc = "respErr")
         => lastSeenBlocks'[c] = lastSeenBlocks[c]]_vars

\* C11: when the log query is answered ok with a batch in which some logs do
\* not decode, GET answers 200 and its transactions, its totalTransactions,
\* the seen Set and the cursor are those it produces for the same batch
\* without the logs that do not decode; no transfer is emitted for such a log.
C11_DecodeSkip ==
  [][\A c \in Chains : \A i \in FetchIds(c) :
       (fetches[c][i].pc = "query" /\ fetches'[c][i].pc = "respOk") =>
       \A logs \in [1..(delivered' - delivered) -> Logs], coin \in BOOLEAN :
         GETQueryResponse(c, i, FixedAnswer.next_block, FixedAnswer.archive_height,
                          logs, FALSE, coin)
           => LET r == ProcessLogs(Decodable(logs), seenTransactions[c], <<>>) IN
              /\ fetches'[c][i].pc = "respOk"
              /\ fetches'[c][i].transactions = r.transactions
              /\ fetches'[c][i].totalTransactions = Len(r.seen)
              /\ BadTx \notin Range(fetches'[c][i].transactions)
              /\ seenTransactions'[c] =
                   IF coin THEN cleanupSeenTransactions(r.seen) ELSE r.seen
              /\ lastSeenBlocks'[c] =
                   NextCursor(lastSeenBlocks[c], FixedAnswer.next_block,
                              FixedAnswer.archive_height)]_vars

\* C11 witness: the only answer of a run carried three logs, one of which did
\* not decode; GET answered 200 with the two other transfers and moved the
\* cursor.
C11_Witness ==
  \E c \in Chains :
    /\ delivered = 3 /\ undecoded[c] = 1
    /\ Len(fetches[c]) = 1 /\ \A d \in Chains \ {c} : fetches[d] = <<>>
    /\ fetches[c][1].pc = "respOk"
    /\ Len(fetches[c][1].transactions) = 2
    /\ lastSeenBlocks[c] = FixedAnswer.next_block

\* C12 (stated as claimed, refuted): a GET that finds the cursor unset
\* queries from the archive height minus 10 blocks; a GET that finds the
\* cursor set queries from the cursor.
C12_FirstRunStart ==
  [][\A c \in Chains : \A i \in FetchIds(c) :
       /\ (fetches[c][i].pc = "heightQuery" /\ fetches'[c][i].pc = "query")
            => fetches'[c][i].fromBlock = FixedAnswer.archive_height - 10
       /\ (fetches[c][i].pc = "request" /\ fetches'[c][i].pc = "query")
            => fetches'[c][i].fromBlock = lastSeenBlocks[c]]_vars

\* a fetch whose GET has sent its log query and was not answered an error
Queried(f) == f.pc \in {"query", "respOk"}

\* C13 (stated as claimed, refuted): a 200 answer carrying next_block = n
\* leaves the cursor at n, a GET that finds the cursor set queries from it,
\* and no two fetches of a chain query from the same block.
C13_Continuation ==
  [][\A c \in Chains : \A i \in FetchIds(c) :
       LET f == fetches[c][i]
           g == fetches'[c][i]
       IN /\ (f.pc = "query" /\ g.pc = "respOk" /\ g.nextBlock # 0)
               => lastSeenBlocks'[c] = g.nextBlock
          /\ (f.pc = "request" /\ g.pc = "query")
               => g.fromBlock = lastSeenBlocks[c]
          /\ \A j \in FetchIds(c) \ {i} :
               (Queried(g) /\ Queried(fetches'[c][j]))
                 => g.fromBlock # fetches'[c][j].fromBlock]_vars

\* the blip numbered id, in the blips of a state
BlipOf(blips, id) == blips[CHOOSE k \in 1..Len(blips) : blips[k].id = id]
IsFrame == \E elapsed \in Elapsed : drawRadar(elapsed)

\* C14: a blip that is discovered is discovered in the next state too, as
\* long as it is among the blips, whatever the step is: a frame, a feed
\* update, a pointer event or a re-run of the animation effect.
C14_DiscoveryMonotone ==
  [][\A id \in BlipIds(radarTransactions) \cap BlipIds(radarTransactions') :
       BlipOf(radarTransactions, id).discovered
         => BlipOf(radarTransactions', id).discovered]_vars

\* C14 witness: a blip discovered in an earlier frame has faded since and is
\* hovered, the effect has re-run for it, and a later feed update has added
\* a blip that is not discovered yet.
C14_Witness ==
  /\ Len(radarTransactions) = 2
  /\ radarTransactions[1].discovered /\ radarTransactions[1].fadeProgress > 0
  /\ ~radarTransactions[2].discovered
  /\ effectHoveredBlip = radarTransactions[1].hash
  /\ lastFrameTimeRef = 1

C16_FadeTermination ==
  \A k \in 1..Len(radarTransactions) :
    LET b == radarTransactions[k] IN
    (b.discovered /\ b.id \in DOMAIN sinceDiscovered /\ b.id \notin hoveredSince)
      => sinceDiscovered[b.id] < visualRotationTime + MaxElapsed

\* the order of two raw amounts (both parse)
AmountLess(a1, a2) ==
  /\ a1.parses /\ a2.parses
  /\ \/ a1.units < a2.units
     \/ a1.units = a2.units /\ a1.rest < a2.rest

\* C17: of two blips the one with the smaller raw amount is not drawn
\* larger, and every blip's size, that of an unparseable amount included,
\* lies within [minSize, maxSize].
C17_SizeMonotone ==
  \A j, k \in 1..Len(radarTransactions) :
    LET b1 == radarTransactions[j]
        b2 == radarTransactions[k]
    IN /\ b1.size = calculateBlipSize(b1.value)
       /\ b1.size >= minSize /\ b1.size <= maxSize
       /\ AmountLess(b1.value, b2.value) => b1.size <= b2.size

\* two blips on the radar: one of an amount between the clamps, one of an
\* amount whose size is cut to maxSize, the first drawn smaller
C17_Witness ==
  \E j, k \in 1..Len(radarTransactions) :
    LET b1 == radarTransactions[j]
        b2 == radarTransactions[k]
    IN /\ AmountLess(b1.value, b2.value)
       /\ b1.value.units > 1 /\ b2.value.units > 1000000
       /\ minSize < b1.size /\ b1.size < b2.size /\ b2.size = maxSize

\* C18 (stated as claimed, refuted): an error recorded for a chain is
\* neither overwritten nor cleared when a fetch of another chain ends, in
\* failure or in success.
C18_ErrorPerChain ==
  [][\A a \in Chains :
       (/\ error # NoError /\ error[1] = a
        /\ \E b \in Chains \ {a} : \E i \in FetchIds(b) :
             fetches[b][i].pc \in {"respOk", "respErr"} /\ fetches'[b][i].pc = "done")
         => error' = error]_vars

\* what the ingest side holds for chain b
ChainState(b) ==
  <<lastHeightRef[b], lastSeenBlocks[b], seenTransactions[b],
    chainData[b].transactions, chainData[b].totalCount>>

\* C19: every step of the ingest side (a height poll, a step of a fetch, a
\* cleanup, a feed push) is the step of one chain, and leaves the last
\* height, the cursor, the seen set, the feed and the count of every other
\* chain as they were.
C19_ChainIsolation ==
  [][\E a \in Chains : \A b \in Chains \ {a} :
       /\ pendingHeight'[b] = pendingHeight[b]
       /\ fetches'[b] = fetches[b]
       /\ ChainState(b)' = ChainState(b)]_vars

\* both chains have polled, fetched and pushed, and hold different
\* seen sets and feeds
C19_Witness ==
  \E a, b \in Chains :
    /\ a # b
    /\ lastHeightRef[a] # 0 /\ lastHeightRef[b] # 0
    /\ lastSeenBlocks[a] # 0 /\ lastSeenBlocks[b] # 0
    /\ chainData[a].transactions # <<>> /\ chainData[b].transactions # <<>>
    /\ chainData[a] # chainData[b]
    /\ seenTransactions[a] # seenTransactions[b]

\* C20 (stated as claimed, refuted): once no call of fetchChainData is
\* pending for a chain, every transaction hash in the chain's seen set has
\* been pushed into the chain's feed.
C20_AcceptedPushed ==
  \A c \in Chains :
    PendingFetches(c) = {} => Range(seenTransactions[c]) \subseteq Range(pushed[c])

\* C21 (stated as claimed, refuted): a GET whose answer carries a next_block
\* beyond the from_block it queried (or none) does not decrease
\* lastSeenBlocks, whether or not other fetches of its chain are pending.
C21_CursorNeverRegresses ==
  [][\A c \in Chains : \A i \in FetchIds(c) :
       ( /\ fetches[c][i].pc = "query"
         /\ fetches'[c][i].pc \in {"respOk", "respErr"}
         /\ \/ fetches'[c][i].nextBlock = 0
            \/ fetches'[c][i].nextBlock > fetches[c][i].fromBlock )
         => lastSeenBlocks'[c] >= lastSeenBlocks[c]]_vars

\* the hashes the 200 answers of a chain have carried so far
Emitted(c) ==
  Range(pushed[c]) \cup
    UNION {Range(fetches[c][i].transactions) :
             i \in {j \in FetchIds(c) : fetches[c][j].pc = "respOk"}}

IsInjective(q) == \A j, k \in 1..Len(q) : q[j] = q[k] => j = k

\* C22: while no hash that was accepted has been dropped from the seen set
\* of the chain, a 200 answer carries every hash once at most and carries no
\* hash an earlier answer for the chain has carried, also when the fetches
\* of the chain overlap.
C22_DedupOverlapping ==
  [][\A c \in Chains : \A i \in FetchIds(c) :
       ( /\ fetches[c][i].pc = "query" /\ fetches'[c][i].pc = "respOk"
         /\ Range(seenTransactions[c]) = appeared[c] )
         => /\ IsInjective(fetches'[c][i].transactions)
            /\ Range(fetches'[c][i].transactions) \cap Emitted(c) = {}]_vars

\* C22 witness: two fetches of a chain that overlapped were answered two
\* logs of one hash between them; the first answer carries the transfer,
\* the second none.
C22_Witness ==
  \E c \in Chains :
    /\ Len(fetches[c]) = 2 /\ delivered = 2 /\ Cardinality(appeared[c]) = 1
    /\ fetches[c][1].pc = "respOk" /\ ~fetches[c][1].alone
    /\ fetches[c][2].pc = "respOk" /\ ~fetches[c][2].alone
    /\ Len(fetches[c][1].transactions) = 1
    /\ fetches[c][2].transactions = <<>>
    /\ fetches[c][1].fromBlock = fetches[c][2].fromBlock

\* C23 (stated as claimed, refuted): the fetch issued next for a chain after
\* a log query of the chain failed sends its log query with the from_block
\* of the query that failed.
C23_RetrySamePoint ==
  [][\A c \in Chains : \A i \in FetchIds(c) :
       ( /\ i = lastFailed[c].issued + 1
         /\ fetches[c][i].pc \in {"request", "heightQuery"}
         /\ fetches'[c][i].pc = "query" )
         => fetches'[c][i].fromBlock = lastFailed[c].fromBlock]_vars

\* C24: a height check that fails changes nothing but the pending poll; a
\* check that returns a height the gate takes for new starts a fetch at
\* once, however many checks failed before it; and under fair scheduling
\* every poll of the run is made and settled, failures or not.
C24_HeightFailuresNotFatal ==
  /\ [][\A c \in Chains :
          /\ (pendingHeight'[c] < pendingHeight[c] /\ heightLog'[c] = heightLog[c])
               => /\ lastHeightRef'[c] = lastHeightRef[c]
                  /\ fetches'[c] = fetches[c]
                  /\ polls' = polls
          /\ ( /\ Len(heightLog'[c]) > Len(heightLog[c])
               /\ NewBlockDetected(lastHeightRef[c], Last(heightLog'[c])) )
               => /\ Len(fetches'[c]) = Len(fetches[c]) + 1
                  /\ Last(fetches'[c]).pc = "request"
                  /\ lastHeightRef'[c] = Last(heightLog'[c])]_vars
  /\ <>(polls = MaxTrackerPolls /\ \A c \in Chains : pendingHeight[c] = 0)

\* C24 witness: a check of a chain returned 100, the next two checks failed,
\* the check after them returned 101 and started the second fetch.
C24_Witness ==
  \E c \in Chains :
    /\ heightLog[c] = <<100, 101>>
    /\ heightFailures[c] = [streak |-> 0, before |-> 2]
    /\ Len(fetches[c]) = 2 /\ lastHeightRef[c] = 101

\* C25 (stated as claimed, refuted): when the latest check of a chain
\* returned a height below that returned by the check before it, the next
\* check that returns a height above the lowered one starts a fetch.
C25_ReorgRecovery ==
  [][\A c \in Chains :
       LET n == Len(heightLog[c]) IN
       ( /\ Len(heightLog'[c]) = n + 1
         /\ n >= 2
         /\ heightLog[c][n] < heightLog[c][n - 1]
         /\ Last(heightLog'[c]) > heightLog[c][n] )
         => Len(fetches'[c]) = Len(fetches[c]) + 1]_vars

\* C26 (stated as claimed, refuted): a blip that a step takes off the radar
\* was discovered, in an earlier frame or by the discovery pass of the
\* frame that removes it.
C26_BlipLifeCycle ==
  [][\A k \in 1..Len(radarTransactions) :
       radarTransactions[k].id \notin BlipIds(radarTransactions')
         => Discover(radarTransactions, previousSweepAngleRef,
                     sweepAngleRef)[k].discovered]_vars

\* C27 (stated as claimed, refuted): in every frame the blip whose hash is
\* hoveredBlip stays on the radar with its fadeProgress, every other blip
\* fades by the frame's deltaTime and stays exactly if its fadeProgress is
\* still below 1; and the pointer handlers set hoveredBlip to discovered
\* blips only.
C27_HoverHold ==
  [][/\ \A elapsed \in Elapsed : drawRadar(elapsed) =>
          \A k \in 1..Len(radarTransactions) :
            LET b == radarTransactions[k]
                deltaTime == IF lastFrameTimeRef = 0 THEN 0 ELSE elapsed
                faded == b.fadeProgress + FadeAdvance(deltaTime)
            IN IF b.hash = hoveredBlip
                 THEN /\ b.id \in BlipIds(radarTransactions')
                      /\ BlipOf(radarTransactions', b.id).fadeProgress = b.fadeProgress
                 ELSE IF faded < FADE_DONE
                   THEN /\ b.id \in BlipIds(radarTransactions')
                        /\ BlipOf(radarTransactions', b.id).fadeProgress = faded
                 ELSE b.id \notin BlipIds(radarTransactions')
     /\ (hoveredBlip' # hoveredBlip /\ hoveredBlip' # NoHover)
          => hoveredBlip' \in Hoverable]_vars

\* the blips of the next state that the step has created
NewBlips == {k \in 1..Len(radarTransactions') : radarTransactions'[k].id > blipsCreated}
TwinBlips(blips) ==
  \E j, k \in 1..Len(blips) : j # k /\ blips[j].hash = blips[k].hash

\* C28: no step creates a blip for a transfer that was displayed and has
\* been in the feed ever since, and at no time do two blips on the radar have
\* the same hash.
C28_NoDuplicateBlips ==
  [][/\ \A k \in NewBlips : radarTransactions'[k].hash \notin displayed
     /\ ~TwinBlips(radarTransactions')]_vars

\* what the Set of displayed hashes does ensure: no step creates a blip for
\* a transfer that was displayed and has been in the feed ever since,
\* whatever was cut from the Set; and two blips of one hash are on the radar
\* only if the later one was created after the hash had come a second time.
NoDuplicateWhileInFeed ==
  [][/\ \A k \in NewBlips : radarTransactions'[k].hash \notin displayed
     /\ (TwinBlips(radarTransactions') /\ ~TwinBlips(radarTransactions))
          => \E k \in NewBlips :
               /\ radarTransactions'[k].hash \notin displayed
               /\ Len(SelectSeq(pushed[RadarChain],
                                 LAMBDA h : h = radarTransactions'[k].hash)) >= 2]_vars

\* five transfers were displayed, the Set was cut to its last three, a sixth
\* transfer came and was displayed; the transfer before it, in the feed all
\* along, was in the prop again and got no second blip.
SkippedAfterCut ==
  /\ blipsCreated = 6
  /\ seenHashesRef = <<3, 4, 5, 6>>
  /\ chainData[RadarChain].transactions = <<5, 6>>
  /\ displayed = {5, 6}
  /\ pushed[RadarChain] = <<1, 2, 3, 4, 5, 6>>

\* C29: after every frame seenHashesRef holds at most RADAR_SEEN_CEILING
\* hashes, what is above having been cut to the RADAR_SEEN_KEEP latest, and
\* every blip the frame leaves on the radar is held by hover or has been
\* hovered, or is younger than visualRotationTime seconds and a frame.
C29_RadarMemoryBound ==
  [][(\E elapsed \in Elapsed : drawRadar(elapsed)) =>
       /\ Len(seenHashesRef') <= RADAR_SEEN_CEILING
       /\ seenHashesRef' = IF Len(seenHashesRef) > RADAR_SEEN_CEILING
                             THEN SliceLast(seenHashesRef, RADAR_SEEN_KEEP)
                             ELSE seenHashesRef
       /\ \A k \in 1..Len(radarTransactions') :
            LET b == radarTransactions'[k] IN
            \/ b.hash = hoveredBlip
            \/ b.id \in hoveredSince'
            \/ b.id \notin DOMAIN sinceDiscovered'
            \/ sinceDiscovered'[b.id] < visualRotationTime + MaxElapsed]_vars

\* the first half of C29 where the cut happens: a frame leaves at most
\* RADAR_SEEN_CEILING hashes, the latest RADAR_SEEN_KEEP of a longer list
SeenHashesBounded ==
  [][(\E elapsed \in Elapsed : drawRadar(elapsed)) =>
       /\ Len(seenHashesRef') <= RADAR_SEEN_CEILING
       /\ Len(seenHashesRef) > RADAR_SEEN_CEILING =>
            seenHashesRef' = SliceLast(seenHashesRef, RADAR_SEEN_KEEP)]_vars

\* a frame has cut seenHashesRef
SeenHashesCut ==
  /\ seenHashesRef = <<3, 4, 5>>
  /\ displayed = {5}

\* C30: the sweep angle is the angle of the time that has passed since the
\* first frame, whatever the frames it passed in, so it is back at its
\* start after every visualRotationTime seconds; and every frame that
\* follows a frame adds the time since that frame to the fadeProgress of
\* each blip that is not hovered.
C30_TickRateIndependence ==
  [][\A elapsed \in Elapsed : drawRadar(elapsed) =>
       /\ clock'.ticked
       /\ sweepAngleRef' = SweepAdvance(clock'.total) % TURN
       /\ clock.ticked =>
            \A k \in 1..Len(radarTransactions') :
              LET b == radarTransactions'[k] IN
              b.hash \notin {hoveredBlip, effectHoveredBlip}
                => b.fadeProgress = BlipOf(radarTransactions, b.id).fadeProgress
                                      + FadeAdvance(elapsed)]_vars

\* C31: a frame takes a blip that is not hovered off the radar exactly if
\* the time its fadeProgress stands for, with the time of this frame, has
\* reached blockTime seconds; below 2 seconds as well.
C31_BlipPersistence ==
  [][\A elapsed \in Elapsed : drawRadar(elapsed) =>
       \A k \in 1..Len(radarTransactions) :
         LET b == radarTransactions[k]
             deltaTime == IF lastFrameTimeRef = 0 THEN 0 ELSE elapsed
         IN b.hash \notin {hoveredBlip, effectHoveredBlip}
              => (b.id \in BlipIds(radarTransactions')
                    <=> b.fadeProgress + deltaTime < blockTime)]_vars

\* the radar shows a blip of transfer h
HasBlip(h) == \E k \in 1..Len(radarTransactions) : radarTransactions[k].hash = h

\* C32: with frames that keep coming, each after a positive time, a blip
\* that from some time on is not hovered is off the radar in the end,
\* discovered or not.
C32_EventuallyRemoved ==
  \A h \in RadarHashes :
    <>[](hoveredBlip # h /\ effectHoveredBlip # h) => <>[]~HasBlip(h)

\* C33: a blip is created at an angle of [0, 2 pi) and a distance of
\* [0.3, 0.9], with fadeProgress 0 and not discovered; no step changes the
\* angle, the distance or the size of a blip; and every blip on the radar
\* has a fadeProgress of at least 0 and less than 1.
C33_BlipWellFormed ==
  [][/\ \A k \in NewBlips :
          LET b == radarTransactions'[k] IN
          /\ 0 <= b.angle /\ b.angle < TURN
          /\ 300 <= b.distance /\ b.distance <= 900
          /\ b.fadeProgress = 0
          /\ ~b.discovered
     /\ \A k \in 1..Len(radarTransactions') :
          LET b == radarTransactions'[k] IN
          /\ b.id \in BlipIds(radarTransactions) =>
               /\ b.angle = BlipOf(radarTransactions, b.id).angle
               /\ b.distance = BlipOf(radarTransactions, b.id).distance
               /\ b.size = BlipOf(radarTransactions, b.id).size
          /\ 0 <= b.fadeProgress /\ b.fadeProgress < FADE_DONE]_vars

\* C33 witness: of two blips one has faded out; the other, created at the
\* greatest angle and distance, is discovered, has faded in part, and is
\* where it was created.
C33_Witness ==
  /\ blipsCreated = 2
  /\ Len(radarTransactions) = 1
  /\ radarTransactions[1].angle = BlipAngleOf(999)
  /\ radarTransactions[1].distance = BlipDistanceOf(999)
  /\ radarTransactions[1].discovered
  /\ radarTransactions[1].fadeProgress > 0

C35_SizeTable ==
  \A k \in 1..Len(radarTransactions) :
    LET b == radarTransactions[k] IN
    b.value.parses =>
      /\ b.value.units = 100 => b.size = 2000
      /\ b.value.units = 1000 => (2500 <= b.size /\ b.size <= 3500)
      /\ b.value.units = 10000 => b.size = 5000
      /\ b.value.units = 100000 => b.size = 8000
      /\ b.value.units = 1000000 => b.size = 12000
      /\ b.size = maxSize => b.value.units >= 10000000

\* C36: the timestamp of a transfer whose block timestamp is missing is the
\* time of Date.now(), in milliseconds; the timestamp of a transfer with a
\* block timestamp in seconds is that number times 1000.
C36_TimestampFallback ==
  \A k \in 1..Len(stamps) :
    LET t == stamps[k] IN
    /\ t.blockTimestamp.type = "undefined" => t.timestamp = t.now
    /\ t.blockTimestamp.type = "number" => t.timestamp = t.blockTimestamp.n * 1000

\* C37: after every step each blip on the radar stands for a transfer of
\* at least the current threshold, and a change of the threshold leaves the
\* feed of the chain and its total count as they are.
C37_ThresholdFilter ==
  [][/\ \A k \in 1..Len(radarTransactions') :
          radarTransactions'[k].value.units >= threshold'
     /\ threshold' # threshold => chainData' = chainData]_vars

====
